---- MODULE Spec2Model ----
(***************************************************************************)
(* Model of tools/strip_comments.py: the single-pass comment scanner       *)
(* strip_comments(text), one loop iteration per step.                      *)
(***************************************************************************)
EXTENDS Integers, Sequences, FiniteSets, TLC

\* ---------------------------------------------------------------- bounds
MaxLen == 5

\* ------------------------------------------------------------ characters
DQ == "\""
SQ == "'"
SLASH == "/"
STAR == "*"
BSL == "\\"
NL == "\n"
LETTER == "a"

Alphabet == {DQ, SQ, SLASH, STAR, BSL, NL, LETTER}

\* ----------------------------------------------- the five scanner modes
NORMAL == 0
LINE == 1
BLOCK == 2
IN_STRING == 3
CHAR == 4

\* ------------------------------------------- the texts the model scans
Scenario1In ==
    <<"i", "n", "t", " ", "x", " ", "=", " ", "1", ";", " ", SLASH,
      SLASH, " ", "s", "e", "t", " ", "x", NL, "i", "n", "t", " ",
      "y", " ", "=", " ", "2", ";">>

Scenario1Out ==
    <<"i", "n", "t", " ", "x", " ", "=", " ", "1", ";", " ", NL,
      "i", "n", "t", " ", "y", " ", "=", " ", "2", ";">>

Scenario2In ==
    <<SLASH, STAR, " ", "h", "e", "a", "d", "e", "r", NL, "c", "o",
      "m", "m", "e", "n", "t", " ", STAR, SLASH, " ", "i", "n", "t",
      " ", "x", ";">>

Scenario2Out ==
    <<" ", "i", "n", "t", " ", "x", ";">>

Scenario3In ==
    <<"c", "h", "a", "r", " ", "q", " ", "=", " ", SQ, SLASH, SQ,
      ";">>

Scenario4In ==
    <<"c", "h", "a", "r", " ", STAR, "s", " ", "=", " ", DQ, "h",
      "t", "t", "p", ":", SLASH, SLASH, "x", DQ, ";", " ", SLASH, SLASH,
      " ", "n", "o", "t", "e">>

Scenario4Out ==
    <<"c", "h", "a", "r", " ", STAR, "s", " ", "=", " ", DQ, "h",
      "t", "t", "p", ":", SLASH, SLASH, "x", DQ, ";", " ">>

Scenario5In ==
    <<SLASH, STAR, " ", "u", "n", "t", "e", "r", "m", "i", "n", "a",
      "t", "e", "d">>

Scenario5Out ==
    <<>>

EscapedQuoteIn ==
    <<DQ, "a", BSL, DQ, "b", DQ>>

\* A block comment holding a second opener, then code, then a stray closer.
NestedIn ==
    <<SLASH, STAR, SLASH, STAR, STAR, SLASH, "x", STAR, SLASH>>

NestedOut ==
    <<"x", STAR, SLASH>>

Examples ==
    {Scenario1In, Scenario2In, Scenario3In, Scenario4In, Scenario5In,
     EscapedQuoteIn, NestedIn}

Texts == UNION {[1..k -> Alphabet] : k \in 0..MaxLen}

Inputs == Texts \cup Examples

\* The locals of one invocation of strip_comments and its position.
VARIABLES text, out, i, n, state, str_delim, escape, pc

\* The locals and positions of two invocations running side by side.
VARIABLES scans, spc

\* The file tree, and the locals, output and position of main.
VARIABLES fs, todo, changed, written, reported, mpc, runs

scanVars == <<text, out, i, n, state, str_delim, escape, pc>>

parVars == <<scans, spc>>

mainVars == <<fs, todo, changed, written, reported, mpc, runs>>

vars == <<scanVars, parVars, mainVars>>

\* No single invocation under way.
ScanIdle ==
    /\ text = <<>>
    /\ out = <<>>
    /\ i = 0
    /\ n = 0
    /\ state = NORMAL
    /\ str_delim = DQ
    /\ escape = FALSE
    /\ pc = "idle"

\* No pair of invocations under way.
ParIdle == scans = <<>> /\ spc = <<>>

\* main not running.
MainIdle ==
    /\ fs = <<>>
    /\ todo = {}
    /\ changed = 0
    /\ written = {}
    /\ reported = <<>>
    /\ mpc = "idle"
    /\ runs = 0

\* ------------------------------------------------ the scanner's locals
\* The locals of one invocation, as set up before the loop.
locals(t) ==
    [text |-> t, out |-> <<>>, i |-> 0, n |-> Len(t), state |-> NORMAL,
     str_delim |-> DQ, escape |-> FALSE]

\* text[k] of the source (0-based).
ch_at(s, k) == s.text[k + 1]

\* Variant of the NORMAL branch that does not remember the `'` delimiter.
normal_branch_no_delim(s) ==
    LET ch == ch_at(s, s.i) IN
    IF ch = DQ
    THEN [s EXCEPT !.state = IN_STRING, !.str_delim = DQ,
                   !.out = Append(@, ch), !.i = @ + 1]
    ELSE IF ch = SQ
    THEN [s EXCEPT !.state = CHAR, !.out = Append(@, ch), !.i = @ + 1]
    ELSE IF ch = SLASH
    THEN IF s.i + 1 < s.n /\ ch_at(s, s.i + 1) = SLASH
         THEN [s EXCEPT !.state = LINE, !.i = @ + 2]
         ELSE IF s.i + 1 < s.n /\ ch_at(s, s.i + 1) = STAR
         THEN [s EXCEPT !.state = BLOCK, !.i = @ + 2]
         ELSE [s EXCEPT !.out = Append(@, ch), !.i = @ + 1]
    ELSE [s EXCEPT !.out = Append(@, ch), !.i = @ + 1]

\* Variant of the NORMAL branch that consumes only the `/` of `/*`.
normal_branch_open_one(s) ==
    LET ch == ch_at(s, s.i) IN
    IF ch = DQ
    THEN [s EXCEPT !.state = IN_STRING, !.str_delim = DQ,
                   !.out = Append(@, ch), !.i = @ + 1]
    ELSE IF ch = SQ
    THEN [s EXCEPT !.state = CHAR, !.str_delim = SQ,
                   !.out = Append(@, ch), !.i = @ + 1]
    ELSE IF ch = SLASH
    THEN IF s.i + 1 < s.n /\ ch_at(s, s.i + 1) = SLASH
         THEN [s EXCEPT !.state = LINE, !.i = @ + 2]
         ELSE IF s.i + 1 < s.n /\ ch_at(s, s.i + 1) = STAR
         THEN [s EXCEPT !.state = BLOCK, !.i = @ + 1]
         ELSE [s EXCEPT !.out = Append(@, ch), !.i = @ + 1]
    ELSE [s EXCEPT !.out = Append(@, ch), !.i = @ + 1]

\* state == NORMAL
normal_branch(s) ==
    LET ch == ch_at(s, s.i) IN
    IF ch = DQ
    THEN [s EXCEPT !.state = IN_STRING, !.str_delim = DQ,
                   !.out = Append(@, ch), !.i = @ + 1]
    ELSE IF ch = SQ
    THEN [s EXCEPT !.state = CHAR, !.str_delim = SQ,
                   !.out = Append(@, ch), !.i = @ + 1]
    ELSE IF ch = SLASH
    THEN IF s.i + 1 < s.n /\ ch_at(s, s.i + 1) = SLASH
         THEN [s EXCEPT !.state = LINE, !.i = @ + 2]
         ELSE IF s.i + 1 < s.n /\ ch_at(s, s.i + 1) = STAR
         THEN [s EXCEPT !.state = BLOCK, !.i = @ + 2]
         ELSE [s EXCEPT !.out = Append(@, ch), !.i = @ + 1]
    ELSE [s EXCEPT !.out = Append(@, ch), !.i = @ + 1]

\* Variant of the LINE branch whose append is outside the newline test.
line_branch_append_all(s) ==
    LET ch == ch_at(s, s.i) IN
    IF ch = NL
    THEN [s EXCEPT !.out = Append(@, ch), !.state = NORMAL, !.i = @ + 1]
    ELSE [s EXCEPT !.out = Append(@, ch), !.i = @ + 1]

\* Variant of the LINE branch that does not keep the newline.
line_branch_drop_newline(s) ==
    LET ch == ch_at(s, s.i) IN
    IF ch = NL
    THEN [s EXCEPT !.state = NORMAL, !.i = @ + 1]
    ELSE [s EXCEPT !.i = @ + 1]

\* Variant of the LINE branch whose increment is inside the newline test.
line_branch_stuck(s) ==
    LET ch == ch_at(s, s.i) IN
    IF ch = NL
    THEN [s EXCEPT !.out = Append(@, NL), !.state = NORMAL, !.i = @ + 1]
    ELSE s

\* Variant of the LINE branch in which a `"` inside the comment opens a
\* literal.
line_branch_quote(s) ==
    LET ch == ch_at(s, s.i) IN
    IF ch = NL
    THEN [s EXCEPT !.out = Append(@, NL), !.state = NORMAL, !.i = @ + 1]
    ELSE IF ch = DQ
         THEN [s EXCEPT !.state = IN_STRING, !.i = @ + 1]
         ELSE [s EXCEPT !.i = @ + 1]

\* state == LINE
line_branch(s) ==
    LET ch == ch_at(s, s.i) IN
    IF ch = NL
    THEN [s EXCEPT !.out = Append(@, NL), !.state = NORMAL, !.i = @ + 1]
    ELSE [s EXCEPT !.i = @ + 1]

\* Variant of the BLOCK branch that puts a space where the comment was.
block_branch_space(s) ==
    LET ch == ch_at(s, s.i) IN
    IF ch = STAR /\ s.i + 1 < s.n /\ ch_at(s, s.i + 1) = SLASH
    THEN [s EXCEPT !.out = Append(@, " "), !.i = @ + 2, !.state = NORMAL]
    ELSE [s EXCEPT !.i = @ + 1]

\* Variant of the BLOCK branch that keeps the newlines of the comment.
block_branch_keep_newline(s) ==
    LET ch == ch_at(s, s.i) IN
    IF ch = STAR /\ s.i + 1 < s.n /\ ch_at(s, s.i + 1) = SLASH
    THEN [s EXCEPT !.i = @ + 2, !.state = NORMAL]
    ELSE IF ch = NL
         THEN [s EXCEPT !.out = Append(@, NL), !.i = @ + 1]
         ELSE [s EXCEPT !.i = @ + 1]

\* Variant of the BLOCK branch that closes on `*` without its lookahead.
block_branch_star_closes(s) ==
    LET ch == ch_at(s, s.i) IN
    IF ch = STAR
    THEN [s EXCEPT !.i = @ + 1, !.state = NORMAL]
    ELSE [s EXCEPT !.i = @ + 1]

\* Variant of the BLOCK branch whose lookahead treats the end of the buffer
\* as the closing `/`.
block_branch_eof_closes(s) ==
    LET ch == ch_at(s, s.i) IN
    IF ch = STAR /\ (~(s.i + 1 < s.n) \/ ch_at(s, s.i + 1) = SLASH)
    THEN [s EXCEPT !.i = @ + 2, !.state = NORMAL]
    ELSE [s EXCEPT !.i = @ + 1]

\* state == BLOCK
block_branch(s) ==
    LET ch == ch_at(s, s.i) IN
    IF ch = STAR /\ s.i + 1 < s.n /\ ch_at(s, s.i + 1) = SLASH
    THEN [s EXCEPT !.i = @ + 2, !.state = NORMAL]
    ELSE [s EXCEPT !.i = @ + 1]

\* Variant of the IN_STRING branch that copies only unescaped characters.
string_branch_skip_escaped(s) ==
    LET ch == ch_at(s, s.i)
        s2 == IF s.escape
              THEN [s EXCEPT !.escape = FALSE]
              ELSE IF ch = BSL
                   THEN [s EXCEPT !.escape = TRUE, !.out = Append(@, ch)]
                   ELSE IF ch = s.str_delim
                        THEN [s EXCEPT !.state = NORMAL,
                                       !.out = Append(@, ch)]
                        ELSE [s EXCEPT !.out = Append(@, ch)]
    IN [s2 EXCEPT !.i = @ + 1]

\* Variant of the IN_STRING branch that looks one character back instead of
\* carrying the escape flag.
string_branch_lookbehind(s) ==
    LET ch == ch_at(s, s.i)
        s1 == [s EXCEPT !.out = Append(@, ch)]
        s2 == IF ch = s1.str_delim /\ ~(s.i > 0 /\ ch_at(s, s.i - 1) = BSL)
              THEN [s1 EXCEPT !.state = NORMAL]
              ELSE s1
    IN [s2 EXCEPT !.i = @ + 1]

\* Variant of the IN_STRING branch that closes on either quote character.
string_branch_any_quote(s) ==
    LET ch == ch_at(s, s.i)
        s1 == [s EXCEPT !.out = Append(@, ch)]
        s2 == IF s1.escape
              THEN [s1 EXCEPT !.escape = FALSE]
              ELSE IF ch = BSL
                   THEN [s1 EXCEPT !.escape = TRUE]
                   ELSE IF ch \in {DQ, SQ}
                        THEN [s1 EXCEPT !.state = NORMAL]
                        ELSE s1
    IN [s2 EXCEPT !.i = @ + 1]

\* Variant of the IN_STRING branch in which a newline ends the literal.
string_branch_newline_closes(s) ==
    LET ch == ch_at(s, s.i)
        s1 == [s EXCEPT !.out = Append(@, ch)]
        s2 == IF s1.escape
              THEN [s1 EXCEPT !.escape = FALSE]
              ELSE IF ch = BSL
                   THEN [s1 EXCEPT !.escape = TRUE]
                   ELSE IF ch = s1.str_delim \/ ch = NL
                        THEN [s1 EXCEPT !.state = NORMAL]
                        ELSE s1
    IN [s2 EXCEPT !.i = @ + 1]

\* Variant of the IN_STRING branch that tests the delimiter before the
\* escape flag.
string_branch_close_first(s) ==
    LET ch == ch_at(s, s.i)
        s1 == [s EXCEPT !.out = Append(@, ch)]
        s2 == IF ch = s1.str_delim
              THEN [s1 EXCEPT !.state = NORMAL]
              ELSE IF s1.escape
                   THEN [s1 EXCEPT !.escape = FALSE]
                   ELSE IF ch = BSL
                        THEN [s1 EXCEPT !.escape = TRUE]
                        ELSE s1
    IN [s2 EXCEPT !.i = @ + 1]

\* state == STRING
string_branch(s) ==
    LET ch == ch_at(s, s.i)
        s1 == [s EXCEPT !.out = Append(@, ch)]
        s2 == IF s1.escape
              THEN [s1 EXCEPT !.escape = FALSE]
              ELSE IF ch = BSL
                   THEN [s1 EXCEPT !.escape = TRUE]
                   ELSE IF ch = s1.str_delim
                        THEN [s1 EXCEPT !.state = NORMAL]
                        ELSE s1
    IN [s2 EXCEPT !.i = @ + 1]

\* state == CHAR
char_branch(s) ==
    LET ch == ch_at(s, s.i)
        s1 == [s EXCEPT !.out = Append(@, ch)]
        s2 == IF s1.escape
              THEN [s1 EXCEPT !.escape = FALSE]
              ELSE IF ch = BSL
                   THEN [s1 EXCEPT !.escape = TRUE]
                   ELSE IF ch = s1.str_delim
                        THEN [s1 EXCEPT !.state = NORMAL]
                        ELSE s1
    IN [s2 EXCEPT !.i = @ + 1]

\* One iteration of the while loop.
loop_body(s) ==
    IF s.state = NORMAL THEN normal_branch(s)
    ELSE IF s.state = LINE THEN line_branch(s)
    ELSE IF s.state = BLOCK THEN block_branch(s)
    ELSE IF s.state = IN_STRING THEN string_branch(s)
    ELSE IF s.state = CHAR THEN char_branch(s)
    ELSE s

\* The while loop run to its exit.
RECURSIVE run(_)
run(s) == IF s.i < s.n THEN run(loop_body(s)) ELSE s

\* The function's result.
strip_comments(t) == run(locals(t)).out

\* ------------------------------------------------------ the state machine
Cur ==
    [text |-> text, out |-> out, i |-> i, n |-> n, state |-> state,
     str_delim |-> str_delim, escape |-> escape]

Install(s) ==
    /\ text' = s.text
    /\ out' = s.out
    /\ i' = s.i
    /\ n' = s.n
    /\ state' = s.state
    /\ str_delim' = s.str_delim
    /\ escape' = s.escape
    /\ pc' = "loop"
    /\ UNCHANGED <<parVars, mainVars>>

Init ==
    /\ \E t \in Inputs :
          /\ text = t
          /\ out = locals(t).out
          /\ i = locals(t).i
          /\ n = locals(t).n
          /\ state = locals(t).state
          /\ str_delim = locals(t).str_delim
          /\ escape = locals(t).escape
    /\ pc = "loop"
    /\ ParIdle
    /\ MainIdle

InLoop == pc = "loop" /\ i < n

Normal == InLoop /\ state = NORMAL /\ Install(normal_branch(Cur))

Line == InLoop /\ state = LINE /\ Install(line_branch(Cur))

Block == InLoop /\ state = BLOCK /\ Install(block_branch(Cur))

String == InLoop /\ state = IN_STRING /\ Install(string_branch(Cur))

Char == InLoop /\ state = CHAR /\ Install(char_branch(Cur))

Return ==
    /\ pc = "loop"
    /\ ~(i < n)
    /\ pc' = "done"
    /\ UNCHANGED <<text, out, i, n, state, str_delim, escape>>
    /\ UNCHANGED <<parVars, mainVars>>

Next == Normal \/ Line \/ Block \/ String \/ Char \/ Return

Spec == Init /\ [][Next]_vars

\* The loop is sequential code: an enabled step is taken.
FairSpec == Spec /\ WF_vars(Next)

TypeOK ==
    /\ i \in 0..n
    /\ n = Len(text)
    /\ state \in {NORMAL, LINE, BLOCK, IN_STRING, CHAR}
    /\ str_delim \in {DQ, SQ}
    /\ escape \in BOOLEAN
    /\ pc \in {"loop", "done"}

\* ------------------------------------- two invocations, steps interleaved
ParMaxLen == 2

ScanIds == {1, 2}

ParTexts == UNION {[1..k -> Alphabet] : k \in 0..ParMaxLen}

ParInit ==
    /\ scans \in [ScanIds -> {locals(t) : t \in ParTexts}]
    /\ spc = [k \in ScanIds |-> "loop"]
    /\ ScanIdle
    /\ MainIdle

\* Variant in which the mode is one module-level variable of all invocations.
ParStepSharedState(k) ==
    /\ spc[k] = "loop"
    /\ scans[k].i < scans[k].n
    /\ LET s == loop_body(scans[k])
       IN scans' = [j \in ScanIds |->
                      IF j = k THEN s ELSE [scans[j] EXCEPT !.state = s.state]]
    /\ UNCHANGED <<spc, scanVars, mainVars>>

\* One loop iteration of invocation k, on its own locals.
ParStep(k) ==
    /\ spc[k] = "loop"
    /\ scans[k].i < scans[k].n
    /\ scans' = [scans EXCEPT ![k] = loop_body(scans[k])]
    /\ UNCHANGED <<spc, scanVars, mainVars>>

ParReturn(k) ==
    /\ spc[k] = "loop"
    /\ ~(scans[k].i < scans[k].n)
    /\ spc' = [spc EXCEPT ![k] = "done"]
    /\ UNCHANGED <<scans, scanVars, mainVars>>

ParNext == \E k \in ScanIds : ParStep(k) \/ ParReturn(k)

ParSpec == ParInit /\ [][ParNext]_vars

\* ------------------------------------------------------------ the tool
FileMaxLen == 2

MaxRuns == 2

\* A path is its stem and its extension.
Paths == {<<"a", "c">>, <<"b", "h">>, <<"notes", "txt">>}

\* name.endswith('.c') or name.endswith('.h')
iter_source_files == {p \in Paths : p[2] = "c" \/ p[2] = "h"}

FileTexts == UNION {[1..k -> Alphabet] : k \in 0..FileMaxLen}

FileInputs == FileTexts \cup Examples

\* Content of the file the walk does not select.
OtherText == <<SLASH, SLASH, LETTER>>

MainInit ==
    /\ fs \in {f \in [Paths -> FileInputs \cup {OtherText}] :
                 \A p \in Paths :
                    IF p \in iter_source_files
                    THEN f[p] \in FileInputs
                    ELSE f[p] = OtherText}
    /\ todo = iter_source_files
    /\ changed = 0
    /\ written = {}
    /\ reported = <<>>
    /\ mpc = "walk"
    /\ runs = 1
    /\ ScanIdle
    /\ ParIdle

\* Variant of the loop body without the comparison.
MainFileNoCompare(p) ==
    /\ mpc = "walk"
    /\ p \in todo
    /\ fs' = [fs EXCEPT ![p] = strip_comments(fs[p])]
    /\ changed' = changed + 1
    /\ written' = written \cup {p}
    /\ todo' = todo \ {p}
    /\ UNCHANGED <<reported, mpc, runs, scanVars, parVars>>

\* Variant of the loop body that writes content instead of stripped.
MainFileWritesContent(p) ==
    /\ mpc = "walk"
    /\ p \in todo
    /\ LET content == fs[p]
           stripped == strip_comments(content)
       IN IF stripped # content
          THEN /\ fs' = [fs EXCEPT ![p] = content]
               /\ changed' = changed + 1
               /\ written' = written \cup {p}
          ELSE UNCHANGED <<fs, changed, written>>
    /\ todo' = todo \ {p}
    /\ UNCHANGED <<reported, mpc, runs, scanVars, parVars>>

\* The loop body of main for the file at path p.
MainFile(p) ==
    /\ mpc = "walk"
    /\ p \in todo
    /\ LET content == fs[p]
           stripped == strip_comments(content)
       IN IF stripped # content
          THEN /\ fs' = [fs EXCEPT ![p] = stripped]
               /\ changed' = changed + 1
               /\ written' = written \cup {p}
          ELSE UNCHANGED <<fs, changed, written>>
    /\ todo' = todo \ {p}
    /\ UNCHANGED <<reported, mpc, runs, scanVars, parVars>>

\* The walk is exhausted: print the count.
MainDone ==
    /\ mpc = "walk"
    /\ todo = {}
    /\ reported' = Append(reported, changed)
    /\ mpc' = "done"
    /\ UNCHANGED <<fs, todo, changed, written, runs, scanVars, parVars>>

\* The tool is run again over the same tree.
MainAgain ==
    /\ mpc = "done"
    /\ runs < MaxRuns
    /\ runs' = runs + 1
    /\ todo' = iter_source_files
    /\ changed' = 0
    /\ written' = {}
    /\ mpc' = "walk"
    /\ UNCHANGED <<fs, reported, scanVars, parVars>>

MainNext == (\E p \in Paths : MainFile(p)) \/ MainDone \/ MainAgain

MainSpec == MainInit /\ [][MainNext]_vars

\* ------------------------------------------------- vocabulary of the claims
\* The modes a scan is in after each of its remaining loop iterations.
RECURSIVE ModesEntered(_)
ModesEntered(s) ==
    IF s.i < s.n
    THEN LET s2 == loop_body(s) IN {s2.state} \cup ModesEntered(s2)
    ELSE {}

\* The scan of t from its start never enters LINE or BLOCK.
CommentFree(t) == ModesEntered(locals(t)) \cap {LINE, BLOCK} = {}

Done == pc = "done"

\* Number of positions of t holding character c.
Count(t, c) == Cardinality({k \in 1..Len(t) : t[k] = c})

\* C1: stripping is idempotent: the result of a finished scan is left
\* unchanged by stripping it again, strip(strip(x)) = strip(x).
C1_Idempotent == Done => strip_comments(out) = out

\* A finished scan that deleted a comment and kept some code.
C1_Witness == Done /\ out # text /\ out # <<>>

\* C2: every comment is deleted: scanning the result of a finished scan from
\* its start never enters LINE or BLOCK mode, so no comment opener is left
\* outside a literal.
C2_NoCommentLeft == Done => CommentFree(out)

\* A finished scan that deleted a comment next to a slash that was kept.
C2_Witness ==
    /\ Done
    /\ out # text
    /\ Count(out, SLASH) > 0
    /\ ~CommentFree(text)

\* C3: literal preservation: a text whose scan never enters LINE or BLOCK
\* mode is returned unchanged, as `char q = '/';` is.
C3_LiteralPreserved ==
    /\ Done /\ CommentFree(text) => out = text
    /\ Done /\ text = Scenario3In => out = Scenario3In

\* A finished comment-free scan of a text that has a comment opener inside a
\* literal.
C3_Witness ==
    /\ Done
    /\ CommentFree(text)
    /\ \E k \in 1..(Len(text) - 1) :
          text[k] = SLASH /\ text[k + 1] \in {SLASH, STAR}
    /\ out = text

\* C4: totality: under sequential execution every scan reaches the end of
\* its buffer and returns, whatever mode it is in by then.
C4_Terminates == <>(Done /\ i = n)

\* A scan that returned with a literal still open and an escape pending.
C4_Witness == Done /\ state = IN_STRING /\ escape

\* a is an order-preserving subsequence of b.
RECURSIVE IsSubseq(_, _)
IsSubseq(a, b) ==
    IF a = <<>> THEN TRUE
    ELSE IF b = <<>> THEN FALSE
    ELSE IF Head(a) = Head(b) THEN IsSubseq(Tail(a), Tail(b))
    ELSE IsSubseq(a, Tail(b))

\* C5: a step appends nothing or the source character at the current
\* position, so the output is always an order-preserving subsequence of the
\* scanned prefix of the input and never longer than it.
C5_OutputFromSource ==
    /\ [](IsSubseq(out, SubSeq(text, 1, i)) /\ Len(out) <= i)
    /\ [][out' = out \/ (i < n /\ out' = Append(out, text[i + 1]))]_vars

\* A finished scan that dropped a comment and kept the newline ending a
\* line comment.
C5_Witness ==
    /\ Done
    /\ LINE \in ModesEntered(locals(text))
    /\ Count(out, NL) > 0
    /\ Len(out) < n

\* C6: when the scan never enters BLOCK mode the output has as many
\* newlines as the input, as in the first end-to-end scenario.
C6_LineStructureKept ==
    /\ Done /\ BLOCK \notin ModesEntered(locals(text))
          => Count(out, NL) = Count(text, NL)
    /\ Done /\ text = Scenario1In => out = Scenario1Out

\* A finished scan that stripped a line comment ended by a newline and never
\* met a block comment.
C6_Witness ==
    /\ Done
    /\ BLOCK \notin ModesEntered(locals(text))
    /\ LINE \in ModesEntered(locals(text))
    /\ Count(text, NL) > 0
    /\ out # text

\* t is `//`, then newline-free text, then one newline.
IsOneLineComment(t) ==
    /\ Len(t) >= 3
    /\ t[1] = SLASH
    /\ t[2] = SLASH
    /\ t[Len(t)] = NL
    /\ Count(t, NL) = 1

\* C7: an input that is exactly one line comment ended by a newline yields
\* exactly that newline.
C7_OneLineComment == Done /\ IsOneLineComment(text) => out = <<NL>>

\* A finished scan of one line comment whose text holds a quote.
C7_Witness ==
    /\ Done
    /\ IsOneLineComment(text)
    /\ Count(text, DQ) + Count(text, SQ) > 0

\* Number of newlines the rest of the scan reads in BLOCK mode.
RECURSIVE BlockNewlines(_)
BlockNewlines(s) ==
    IF s.i < s.n
    THEN (IF s.state = BLOCK /\ ch_at(s, s.i) = NL THEN 1 ELSE 0)
            + BlockNewlines(loop_body(s))
    ELSE 0

\* C8: the output has the input's newlines less those read in BLOCK mode:
\* a block comment takes its embedded newlines with it, and only those.
C8_BlockNewlinesDropped ==
    /\ Done =>
          Count(out, NL) = Count(text, NL) - BlockNewlines(locals(text))
    /\ Done /\ text = Scenario2In => out = Scenario2Out

\* A finished scan that closed a block comment holding a newline and kept
\* the code after it.
C8_Witness ==
    /\ Done
    /\ state = NORMAL
    /\ BlockNewlines(locals(text)) > 0
    /\ out # <<>>

\* Length of the run of backslashes that ends just before position k.
RECURSIVE BackslashRun(_, _)
BackslashRun(t, k) ==
    IF k > 0 /\ t[k] = BSL THEN 1 + BackslashRun(t, k - 1) ELSE 0

InLiteral == state \in {IN_STRING, CHAR}

\* C9: inside a literal the opening delimiter closes the literal exactly
\* when an even number of backslashes stands right before it; the literal
\* "a\"b" stays open over its escaped quote and is copied whole.
C9_EscapedQuote ==
    /\ [][(InLoop /\ InLiteral /\ text[i + 1] = str_delim)
            => ((state' = NORMAL) <=> (BackslashRun(text, i) % 2 = 0))]_vars
    /\ [](text = EscapedQuoteIn =>
            /\ i \in 1..5 => state = IN_STRING
            /\ Done => out = EscapedQuoteIn /\ state = NORMAL)

\* The scanner has just read the delimiter after a backslash and is still
\* inside the literal.
C9_Witness ==
    /\ pc = "loop"
    /\ InLiteral
    /\ i >= 3
    /\ text[i] = str_delim
    /\ BackslashRun(text, i - 1) % 2 = 1

NoNewlineFrom(t, k) == \A j \in (k + 1)..Len(t) : t[j] # NL

NoCloserFrom(t, k) ==
    \A j \in (k + 1)..(Len(t) - 1) : ~(t[j] = STAR /\ t[j + 1] = SLASH)

\* C10: once inside a line comment with no newline ahead, or a block
\* comment with no `*/` ahead, the scan appends nothing more and ends in
\* that comment mode at the end of the buffer.
C10_UnterminatedComment ==
    /\ pc = "loop" /\ state = LINE /\ NoNewlineFrom(text, i) =>
          LET f == run(Cur) IN f.out = out /\ f.state = LINE /\ f.i = n
    /\ pc = "loop" /\ state = BLOCK /\ NoCloserFrom(text, i) =>
          LET f == run(Cur) IN f.out = out /\ f.state = BLOCK /\ f.i = n
    /\ Done /\ text = Scenario5In => out = Scenario5Out /\ state = BLOCK
    /\ Done /\ text = Scenario4In => out = Scenario4Out /\ state = LINE

\* A scan that returned inside a block comment after keeping some code.
C10_Witness ==
    /\ Done
    /\ state = BLOCK
    /\ out # <<>>
    /\ n > Len(out) + 2

\* C12: the cursor stays within 0..n, and every loop iteration advances it
\* by exactly 1, or by exactly 2 when a second character is available.
C12_Cursor ==
    /\ [](i >= 0 /\ i <= n)
    /\ [][InLoop => (i' = i + 1 \/ (i' = i + 2 /\ i + 1 < n))]_vars
    /\ [][i' >= i]_vars

\* A scan whose last iteration consumed a two-character closer that ends
\* the buffer.
C12_Witness ==
    /\ Done
    /\ i = n
    /\ n >= 4
    /\ state = NORMAL
    /\ text[n - 1] = STAR
    /\ text[n] = SLASH
    /\ out = <<>>

NonLiteral == state \in {NORMAL, LINE, BLOCK}

\* C13 as stated: outside the literal modes the string delimiter has no
\* value.
C13_DelimiterUndefined == NonLiteral => str_delim \notin {DQ, SQ}

\* C13 amended: the string delimiter always holds a quote character, and
\* outside the literal modes the iteration taken does not depend on which.
C13_DelimiterUnused ==
    /\ str_delim \in {DQ, SQ}
    /\ InLoop /\ NonLiteral =>
          \A d \in {DQ, SQ} :
             LET a == loop_body(Cur)
                 b == loop_body([Cur EXCEPT !.str_delim = d])
             IN /\ a.out = b.out
                /\ a.i = b.i
                /\ a.state = b.state
                /\ a.escape = b.escape
                /\ a.state \in {IN_STRING, CHAR} => a.str_delim = b.str_delim

\* The scanner is back in NORMAL after a single-quoted literal closed, about
\* to read a `'` again, and still holds `'` as delimiter.
C13_Witness ==
    /\ InLoop
    /\ state = NORMAL
    /\ i >= 2
    /\ str_delim = SQ
    /\ text[i] = SQ
    /\ text[i + 1] = DQ

\* C14: IN_STRING remembers `"` and CHAR remembers `'`; the other quote
\* read inside a literal is copied and leaves the mode as it is.
C14_MatchingQuote ==
    /\ [](state = IN_STRING => str_delim = DQ)
    /\ [](state = CHAR => str_delim = SQ)
    /\ [][InLoop /\ state = IN_STRING /\ text[i + 1] = SQ
            => state' = IN_STRING /\ out' = Append(out, SQ)]_vars
    /\ [][InLoop /\ state = CHAR /\ text[i + 1] = DQ
            => state' = CHAR /\ out' = Append(out, DQ)]_vars

\* The scanner has just read an unescaped `'` inside a double-quoted
\* literal and is still in it.
C14_Witness ==
    /\ pc = "loop"
    /\ state = IN_STRING
    /\ ~escape
    /\ i >= 2
    /\ text[i] = SQ
    /\ text[i - 1] # BSL

\* C15: LINE is left only on a newline and BLOCK only on `*` followed by
\* `/`; any other character read there is discarded and leaves mode,
\* delimiter and escape flag alone, so a second `/*` does not nest.
C15_CommentInert ==
    /\ [][InLoop /\ state = LINE =>
            IF text[i + 1] = NL
            THEN state' = NORMAL
            ELSE /\ state' = LINE
                 /\ i' = i + 1
                 /\ UNCHANGED <<out, str_delim, escape>>]_vars
    /\ [][InLoop /\ state = BLOCK =>
            IF text[i + 1] = STAR /\ i + 1 < n /\ text[i + 2] = SLASH
            THEN state' = NORMAL
            ELSE /\ state' = BLOCK
                 /\ i' = i + 1
                 /\ UNCHANGED <<out, str_delim, escape>>]_vars
    /\ [](text = NestedIn =>
            /\ i \in 2..5 => state = BLOCK
            /\ i = 6 => state = NORMAL /\ out = <<>>
            /\ Done => out = NestedOut)

\* The scanner is in a block comment and has just read a second `/*`.
C15_Witness ==
    /\ pc = "loop"
    /\ state = BLOCK
    /\ i >= 4
    /\ text[i - 1] = SLASH
    /\ text[i] = STAR

SlashStarSlash == <<SLASH, STAR, SLASH>>

\* C16: comment delimiters are consumed two characters at a time: `/*/`
\* leaves the scanner in BLOCK with nothing emitted, no block comment closes
\* before position 4, and the character after a closer is scanned afresh.
C16_WholeDelimiters ==
    /\ [][InLoop /\ state = NORMAL /\ state' \in {LINE, BLOCK}
            => i' = i + 2]_vars
    /\ [][InLoop /\ state = BLOCK /\ state' = NORMAL
            => i' = i + 2 /\ i' >= 4]_vars
    /\ [](text = SlashStarSlash /\ i >= 2 => state = BLOCK /\ out = <<>>)
    /\ [](Done /\ text = <<SLASH, STAR, STAR, SLASH>>
            => state = NORMAL /\ out = <<>>)
    /\ [](Done /\ text = <<SLASH, STAR, STAR, SLASH, SLASH>>
            => state = NORMAL /\ out = <<SLASH>>)
    /\ [](Done /\ text = <<SLASH, STAR, STAR, SLASH, STAR>>
            => state = NORMAL /\ out = <<STAR>>)

\* The scan of `/*/` has returned, still in the block comment.
C16_Witness == Done /\ text = SlashStarSlash /\ state = BLOCK

\* Length of the run of backslashes that ends at position k and lies after
\* position lo.
RECURSIVE RunBack(_, _, _)
RunBack(t, k, lo) ==
    IF k > lo /\ t[k] = BSL THEN 1 + RunBack(t, k - 1, lo) ELSE 0

\* No unescaped occurrence of d in t after position k.
NoUnescapedFrom(t, k, d) ==
    \A j \in (k + 1)..Len(t) : t[j] = d => RunBack(t, j - 1, k) % 2 = 1

\* C17: a quote read in NORMAL opens a literal with the quote copied; from
\* a literal with no unescaped delimiter ahead the rest of the input is
\* copied verbatim and the scan ends in that literal mode.
C17_UnterminatedLiteral ==
    /\ [][InLoop /\ state = NORMAL /\ state' \in {IN_STRING, CHAR}
            => /\ out' = Append(out, text[i + 1])
               /\ str_delim' = text[i + 1]
               /\ ~escape']_vars
    /\ [](pc = "loop" /\ InLiteral /\ ~escape
             /\ NoUnescapedFrom(text, i, str_delim)
            => LET f == run(Cur)
               IN /\ f.out = out \o SubSeq(text, i + 1, n)
                  /\ f.state = state
                  /\ f.i = n)

\* A scan that returned inside a double-quoted literal holding a `//` and a
\* newline, all of it copied.
C17_Witness ==
    /\ Done
    /\ state = IN_STRING
    /\ out = text
    /\ Count(text, NL) > 0
    /\ \E k \in 1..(n - 1) : text[k] = SLASH /\ text[k + 1] = SLASH

\* C19: outside the literal modes the escape flag is false, so a literal is
\* always entered with it false.
C19_EscapeConfined == NonLiteral => ~escape

\* The scanner is back in NORMAL after closing a literal that held an
\* escaped character.
C19_Witness ==
    /\ pc = "loop"
    /\ state = NORMAL
    /\ i >= 4
    /\ text[1] = DQ
    /\ text[2] = BSL
    /\ text[i] = DQ
    /\ out = SubSeq(text, 1, i)

\* C11: each invocation works on its own locals: however the iterations of
\* two scans are interleaved, a scan that has returned holds exactly what
\* it returns when run alone.
C11_Independent ==
    \A k \in ScanIds :
       spc[k] = "done" =>
          /\ scans[k].out = strip_comments(scans[k].text)
          /\ scans[k] = run(locals(scans[k].text))

\* Both scans have returned, the first from inside a line comment, the
\* second having copied its text.
C11_Witness ==
    /\ spc = [k \in ScanIds |-> "done"]
    /\ scans[1].state = LINE
    /\ scans[2].out = scans[2].text
    /\ scans[2].out # <<>>

\* C18: a file is overwritten exactly when stripping changes its content,
\* with exactly the stripped content; other files are left as they are, and
\* the reported count is the number of files overwritten.
C18_RewriteRule ==
    /\ [][\A p \in Paths :
            /\ (p \in todo /\ p \notin todo') =>
                  /\ (p \in written') <=> (strip_comments(fs[p]) # fs[p])
                  /\ fs'[p] = strip_comments(fs[p])
            /\ (p \in written' /\ p \notin written) =>
                  /\ p \in todo
                  /\ fs'[p] = strip_comments(fs[p])
            /\ ~(p \in written' /\ p \notin written) => fs'[p] = fs[p]]_vars
    /\ [](written \subseteq iter_source_files)
    /\ [](changed = Cardinality(written))
    /\ [](mpc = "done" => reported[Len(reported)] = Cardinality(written))

\* A first run that has reported after overwriting one source file and
\* leaving the other.
C18_Witness ==
    /\ mpc = "done"
    /\ runs = 1
    /\ Cardinality(written) = 1
    /\ reported = <<1>>

\* C20: a run after a complete run overwrites no file and reports 0.
C20_SecondRunClean ==
    /\ runs >= 2 => written = {} /\ changed = 0
    /\ \A r \in 2..Len(reported) : reported[r] = 0

\* The second run has reported 0 after a first run that overwrote both
\* source files.
C20_Witness ==
    /\ runs = 2
    /\ mpc = "done"
    /\ reported = <<2, 0>>

====
